---- MODULE Spec2Model ----
(***************************************************************************)
(* CourseGen: the lazy lesson enrichment of lessonController.getLesson,    *)
(* the generation pipeline of AIService (extractText, parseJSONResponse,   *)
(* validateLessonStructure) and the lesson editing handlers, over a        *)
(* Mongoose document store.                                                *)
(*                                                                         *)
(* A handler is cut into one action per await: everything a handler does   *)
(* between two awaits runs without interleaving (Node's event loop), and   *)
(* other requests may run while it is suspended.                           *)
(***************************************************************************)
EXTENDS Integers, Sequences, FiniteSets, TLC

(* ---------------------------- bounds ---------------------------------- *)
NumReaders == 2
MaxEdits == 2
MaxFailures == 2
MaxRequests == 2
MaxRetries == 2
MaxIdList == 3

\* The lessons followed: handlers touch only the document of req.params.id
Lessons == {1}
Readers == 1..NumReaders

(* ------------------------- content blocks ------------------------------ *)
\* lessonController.js:219, aiService validateLessonStructure: the seven kinds
ValidTypes == {"heading", "paragraph", "code", "list", "video", "mcq", "image"}

\* Number of items of text.split(/\s+/) for the texts the model uses.
WordCount(text) ==
  CASE text = "pending" -> 10   \* 'Content will be generated when you first view this lesson.'
    [] text = "genA" -> 250
    [] text = "genB" -> 3
    [] text = "user" -> 450
    [] OTHER -> 1               \* ''.split(/\s+/) has one item

Block(type, text) == [type |-> type, text |-> text]

\* courseController generateCourse: the single placeholder paragraph
PlaceholderContent == << Block("paragraph", "pending") >>

\* A hole left by MongoDB when $set addresses an index past the array's end
NullBlock == Block("", "")

\* Words counted by the pre('save') hook for one block
BlockWords(b) ==
  IF b.type \in {"paragraph", "heading"} THEN WordCount(b.text)
  ELSE IF b.type = "mcq" THEN 1   \* (block.question || '') with no question
  ELSE 0

RECURSIVE ContentWords(_)
ContentWords(c) ==
  IF c = << >> THEN 0 ELSE BlockWords(Head(c)) + ContentWords(Tail(c))

CeilDiv(a, b) == (a + b - 1) \div b

Max(a, b) == IF a >= b THEN a ELSE b

\* lessonSchema.pre('save'): Math.max(1, Math.ceil(wordCount / 200))
ReadingTime(c) == Max(1, CeilDiv(ContentWords(c), 200))

(* ------------------- the persisted Lesson document --------------------- *)
\* estimatedMinutes and readingTime 0 stand for "not set"
NoDoc ==
  [exists |-> FALSE, content |-> << >>, isEnriched |-> FALSE,
   objectives |-> << >>, estimatedMinutes |-> 0, readingTime |-> 0, v |-> 0]

\* new Lesson({... content: [placeholder], isEnriched: false}) + save()
NewPlaceholder ==
  [exists |-> TRUE, content |-> PlaceholderContent, isEnriched |-> FALSE,
   objectives |-> << >>, estimatedMinutes |-> 0,
   readingTime |-> ReadingTime(PlaceholderContent), v |-> 0]

\* lessonSchema validators that a save() or runValidators update applies
\* A content path without its validator
ContentAlwaysValid(c) == TRUE

\* content: validate v => Array.isArray(v) && v.length > 0
ContentValid(c) == Len(c) > 0
MinutesValid(m) == m = 0 \/ (m >= 1 /\ m <= 240)

(* --------------------- the generation pipeline ------------------------- *)
\* What the model's JSON decodes to, when it decodes
LessonData(title, kind, content, objectives, minutes) ==
  [title |-> title, contentKind |-> kind, content |-> content,
   objectives |-> objectives, estimatedMinutes |-> minutes]

GenA == << Block("heading", "genA"), Block("paragraph", "genA") >>
GenB == << Block("paragraph", "genB") >>
GenQuiz == << Block("paragraph", "genA"), Block("quiz", "genA") >>
GenUntyped == << Block("", "genA") >>
\* A paragraph block that carries no text
GenNoText == << Block("heading", "genA"), Block("paragraph", "") >>

DataA == LessonData("T", "array", GenA, << "objA" >>, 30)
DataB == LessonData("T", "array", GenB, << >>, 0)
DataQuiz == LessonData("T", "array", GenQuiz, << "objA" >>, 30)
DataUntyped == LessonData("T", "array", GenUntyped, << >>, 15)
DataNoTitle == LessonData("", "array", GenA, << >>, 15)
DataNoContent == LessonData("T", "missing", << >>, << >>, 15)
DataEmptyContent == LessonData("T", "array", << >>, << >>, 15)
DataStringContent == LessonData("T", "string", << >>, << >>, 15)
DataLongMinutes == LessonData("T", "array", GenB, << >>, 500)
DataNoText == LessonData("T", "array", GenNoText, << >>, 15)

\* The text of a response: optional prose before it, an optional code
\* fence, and a body that is valid JSON (decoding to data) or not.
RawText(prefix, fence, valid, data) ==
  [prefix |-> prefix, fence |-> fence, valid |-> valid, data |-> data]

Plain(data) == RawText(FALSE, "none", TRUE, data)

\* The response envelope of ai.models.generateContent, or its rejection
Envelope(settle, textKind, candKind, raw) ==
  [settle |-> settle, textKind |-> textKind, candKind |-> candKind, raw |-> raw]

Direct(raw) == Envelope("resolve", "string", "absent", raw)

LessonResponses ==
  { Envelope("reject", "absent", "absent", Plain(DataA)),
    Envelope("resolve", "absent", "absent", Plain(DataA)),
    Envelope("resolve", "absent", "notext", Plain(DataA)),
    Envelope("resolve", "absent", "noparts", Plain(DataA)),
    Envelope("resolve", "absent", "text", Plain(DataB)),
    Envelope("resolve", "function", "absent", Plain(DataA)),
    Direct(RawText(TRUE, "json", FALSE, DataA)),
    Direct(RawText(FALSE, "none", FALSE, DataA)),
    Direct(RawText(FALSE, "json", TRUE, DataA)),
    Direct(RawText(FALSE, "bare", TRUE, DataB)),
    Direct(RawText(FALSE, "other", TRUE, DataA)),
    Direct(Plain(DataA)),
    Direct(Plain(DataB)),
    Direct(Plain(DataQuiz)),
    Direct(Plain(DataUntyped)),
    Direct(Plain(DataNoTitle)),
    Direct(Plain(DataNoContent)),
    Direct(Plain(DataEmptyContent)),
    Direct(Plain(DataStringContent)),
    Direct(Plain(DataLongMinutes)),
    Direct(Plain(DataNoText)) }

\* AIService.extractText: ok = FALSE when it throws; isString = FALSE when
\* it returns candidates[0].content.parts[0].text that is undefined
extractText(response) ==
  IF response.textKind \in {"function", "string"}
    THEN [ok |-> TRUE, isString |-> TRUE, raw |-> response.raw]
  ELSE IF response.candKind = "text"
    THEN [ok |-> TRUE, isString |-> TRUE, raw |-> response.raw]
  ELSE IF response.candKind = "notext"
    THEN [ok |-> TRUE, isString |-> FALSE, raw |-> response.raw]
  ELSE [ok |-> FALSE, isString |-> FALSE, raw |-> response.raw]

\* AIService.parseJSONResponse: trim, strip a ```json or ``` fence, JSON.parse;
\* any exception (text.trim of undefined included) becomes one error
parseJSONResponse(text) ==
  IF ~text.isString THEN [ok |-> FALSE, data |-> text.raw.data]
  ELSE IF text.raw.prefix THEN [ok |-> FALSE, data |-> text.raw.data]
  ELSE IF text.raw.fence = "other" THEN [ok |-> FALSE, data |-> text.raw.data]
  ELSE [ok |-> text.raw.valid, data |-> text.raw.data]

\* A validation that checks only that every block has some type
validateTypePresenceOnly(lessonData) ==
  IF lessonData.title = "" \/ lessonData.contentKind = "missing"
    THEN "missingFields"
  ELSE IF lessonData.contentKind # "array" \/ Len(lessonData.content) = 0
    THEN "noBlocks"
  ELSE IF \E i \in 1..Len(lessonData.content) : lessonData.content[i].type = ""
    THEN "missingType"
  ELSE "ok"

\* AIService.validateLessonStructure: "ok" or the error it throws
validateLessonStructure(lessonData) ==
  IF lessonData.title = "" \/ lessonData.contentKind = "missing"
    THEN "missingFields"
  ELSE IF lessonData.contentKind # "array" \/ Len(lessonData.content) = 0
    THEN "noBlocks"
  ELSE IF \E i \in 1..Len(lessonData.content) :
            /\ lessonData.content[i].type \notin ValidTypes
            /\ \A j \in 1..(i - 1) : lessonData.content[j].type \in ValidTypes
            /\ lessonData.content[i].type = ""
    THEN "missingType"
  ELSE IF \E i \in 1..Len(lessonData.content) :
            lessonData.content[i].type \notin ValidTypes
    THEN "invalidType"
  ELSE "ok"

\* The response carries lesson JSON with a block of a kind outside ValidTypes
HasUnknownKind(response) ==
  /\ response.settle = "resolve"
  /\ extractText(response).ok
  /\ parseJSONResponse(extractText(response)).ok
  /\ parseJSONResponse(extractText(response)).data.contentKind = "array"
  /\ \E i \in 1..Len(response.raw.data.content) :
        response.raw.data.content[i].type \notin ValidTypes

\* AIService.generateLesson after the model call settled with response:
\* the lesson data it returns, or (ok = FALSE) the reason of the one
\* 'Failed to generate lesson' error that its catch block throws
generateLesson(response) ==
  IF response.settle = "reject"
    THEN [ok |-> FALSE, reason |-> "transport", data |-> response.raw.data]
  ELSE IF ~extractText(response).ok
    THEN [ok |-> FALSE, reason |-> "extraction", data |-> response.raw.data]
  ELSE IF ~parseJSONResponse(extractText(response)).ok
    THEN [ok |-> FALSE, reason |-> "parse", data |-> response.raw.data]
  ELSE IF validateLessonStructure(parseJSONResponse(extractText(response)).data) # "ok"
    THEN [ok |-> FALSE, reason |-> "schema", data |-> response.raw.data]
  ELSE [ok |-> TRUE, reason |-> "none",
        data |-> parseJSONResponse(extractText(response)).data]

(* ------------------------------ state ---------------------------------- *)
VARIABLES
  db,        \* the lessons collection: lesson id -> persisted document
  req,       \* the getLesson requests, each with its in-memory document;
             \* badKind records that the model's lesson had an unknown kind
  ed,        \* the editing request (add / update / delete block)
  failures,  \* per lesson, enrichment attempts that failed while the lesson
             \* was not enriched (saturating at MaxFailures)
  commits,   \* per lesson, enrichment commits applied so far
  edits,     \* editing requests handled so far (at most MaxEdits)
  gc,        \* the generateCourse request in progress
  requests,  \* generateCourse requests answered so far (at most MaxRequests)
  courses,   \* the courses collection, a document's id being its index
  modules,   \* the modules collection
  stubs,     \* the lessons collection as generateCourse fills it
  sg,        \* the getCourseSuggestions request
  tr,        \* the translate-hinglish request
  unit,      \* the last call of a service function: its argument and result
  dc,        \* the deleteCourse request in progress
  removed    \* the ids of the documents deleted from each collection

lessonVars == << db, req, ed, failures, commits, edits >>
courseVars == << gc, requests, courses, modules, stubs >>
auxVars == << sg, tr >>
unitVars == << unit >>
deleteVars == << dc, removed >>
vars == << db, req, ed, failures, commits, edits,
           gc, requests, courses, modules, stubs, sg, tr, unit, dc, removed >>

Users == {"owner", "other"}
\* Every lesson belongs to a course whose creator is "owner"
Creator == "owner"

\* A getLesson request: seen is the content it loaded, kept until it answers
IdleReq ==
  [pc |-> "idle", lesson |-> 0, local |-> NoDoc, status |-> 0,
   outcome |-> "none", badKind |-> FALSE, seen |-> << >>]

IdleEd ==
  [pc |-> "idle", lesson |-> 0, mode |-> "none", content |-> << >>,
   v |-> 0, index |-> 0, block |-> NullBlock]

\* No outline yet
NoOutline == [title |-> "", description |-> "", modulesKind |-> "missing",
              modules |-> << >>]

IdleGc ==
  [pc |-> "idle", topic |-> "missing", outline |-> NoOutline, calls |-> 0,
   course |-> 0, module |-> 0, lesson |-> 0, i |-> 0, j |-> 0, status |-> 0,
   badOutline |-> FALSE]

Init ==
  /\ db = [l \in Lessons |-> NoDoc]
  /\ req = [r \in Readers |-> IdleReq]
  /\ ed = IdleEd
  /\ failures = [l \in Lessons |-> 0]
  /\ commits = [l \in Lessons |-> 0]
  /\ edits = 0
  /\ gc = IdleGc
  /\ requests = 0
  /\ courses = << >>
  /\ modules = << >>
  /\ stubs = << >>
  /\ sg = [pc |-> "idle", partialTopic |-> "missing", status |-> 0,
           data |-> [kind |-> "array", items |-> << >>],
           raised |-> FALSE, failed |-> FALSE]
  /\ tr = [pc |-> "idle", text |-> "", status |-> 0, value |-> << >>]
  /\ unit = [fn |-> "none", input |-> << >>, output |-> << >>]
  /\ dc = [pc |-> "idle", course |-> 0, found |-> << >>, k |-> 0, status |-> 0]
  /\ removed = [courses |-> {}, modules |-> {}, stubs |-> {}]

Bump(l) == IF failures[l] < MaxFailures /\ ~db[l].isEnriched
             THEN failures[l] + 1 ELSE failures[l]

(* ----------------- courseController.generateCourse --------------------- *)
\* The lesson.save() of one placeholder lesson of a generated course
CreatePlaceholder(l) ==
  /\ ~db[l].exists
  /\ db' = [db EXCEPT ![l] = NewPlaceholder]
  /\ UNCHANGED << req, ed, failures, commits, edits >>
  /\ UNCHANGED courseVars
  /\ UNCHANGED auxVars
  /\ UNCHANGED unitVars
  /\ UNCHANGED deleteVars

(* -------------------- lessonController.getLesson ----------------------- *)
\* Generation on every read, enriched or not
AlwaysGenerates(lesson) == TRUE

\* The test of isEnriched inverted
InvertedNeedsGeneration(lesson) == lesson.isEnriched

\* if (!lesson.isEnriched)
NeedsGeneration(lesson) == ~lesson.isEnriched

\* The assignments without lesson.isEnriched = true
EnrichedWithoutFlag(lesson, lessonData) ==
  [lesson EXCEPT
     !.content = lessonData.content,
     !.objectives = lessonData.objectives,
     !.estimatedMinutes =
        IF lessonData.estimatedMinutes = 0 THEN 15 ELSE lessonData.estimatedMinutes]

\* lines 55-58: the generated fields assigned to the in-memory document
Enriched(lesson, lessonData) ==
  [lesson EXCEPT
     !.content = lessonData.content,
     !.objectives = lessonData.objectives,
     !.estimatedMinutes =
        IF lessonData.estimatedMinutes = 0 THEN 15 ELSE lessonData.estimatedMinutes,
     !.isEnriched = TRUE]

\* A save that does not filter on the version
AnyVersionMatches(stored, lesson) == TRUE

\* Mongoose adds {__v: loaded version} to the update's filter when save()
\* sets a whole array (versionKey is not disabled in lessonSchema)
VersionMatches(stored, lesson) == stored.v = lesson.v

\* Validation, the store and the version filter all let the save through
SaveAccepted(stored, lesson, storeOk) ==
  /\ ContentValid(lesson.content)
  /\ MinutesValid(lesson.estimatedMinutes)
  /\ storeOk
  /\ stored.exists
  /\ VersionMatches(stored, lesson)

\* A save that writes the flag before it is known to be accepted
FlagFirstSaveResult(stored, lesson, accepted) ==
  IF accepted
    THEN [stored EXCEPT
            !.content = lesson.content,
            !.objectives = lesson.objectives,
            !.estimatedMinutes = lesson.estimatedMinutes,
            !.isEnriched = lesson.isEnriched,
            !.readingTime = ReadingTime(lesson.content),
            !.v = stored.v + 1]
    ELSE [stored EXCEPT !.isEnriched = lesson.isEnriched]

\* The document after lesson.save() of getLesson: one update that sets the
\* modified paths and increments the version, or nothing when it is refused
SaveResult(stored, lesson, accepted) ==
  IF accepted
    THEN [stored EXCEPT
            !.content = lesson.content,
            !.objectives = lesson.objectives,
            !.estimatedMinutes = lesson.estimatedMinutes,
            !.isEnriched = lesson.isEnriched,
            !.readingTime = ReadingTime(lesson.content),
            !.v = stored.v + 1]
    ELSE stored

\* findById, the 404 and 403 answers, and either the immediate answer for an
\* enriched lesson or the start of the model call
GetLessonFind(r, l, u) ==
  /\ req[r].pc = "idle"
  /\ LET lesson == db[l]
         base == [IdleReq EXCEPT !.lesson = l] IN
       req' = [req EXCEPT ![r] =
         IF ~lesson.exists
           THEN [base EXCEPT !.pc = "done", !.status = 404, !.outcome = "notfound"]
         ELSE IF Creator # u
           THEN [base EXCEPT !.pc = "done", !.status = 403, !.outcome = "denied"]
         ELSE IF NeedsGeneration(lesson)
           THEN [base EXCEPT !.pc = "generating", !.local = lesson,
                             !.seen = lesson.content]
         ELSE [base EXCEPT !.pc = "done", !.status = 200, !.local = lesson,
                           !.outcome = "enriched"]]
  /\ UNCHANGED << db, ed, failures, commits, edits >>
  /\ UNCHANGED courseVars
  /\ UNCHANGED auxVars
  /\ UNCHANGED unitVars
  /\ UNCHANGED deleteVars

\* The model call settles; generateLesson returns or throws; on success the
\* fields are assigned and lesson.save() is issued, on failure the catch
\* block logs and the handler answers with the document it holds
GetLessonGenerated(r, response) ==
  /\ req[r].pc = "generating"
  /\ LET g == generateLesson(response)
         l == req[r].lesson IN
       IF g.ok
         THEN /\ req' = [req EXCEPT ![r] =
                   [@ EXCEPT !.pc = "saving",
                             !.badKind = HasUnknownKind(response),
                             !.local = Enriched(req[r].local, g.data)]]
              /\ UNCHANGED failures
         ELSE /\ req' = [req EXCEPT ![r] =
                   [@ EXCEPT !.pc = "done", !.status = 200,
                             !.badKind = HasUnknownKind(response),
                             !.outcome = "generation", !.seen = << >>]]
              /\ failures' = [failures EXCEPT ![l] = Bump(l)]
  /\ UNCHANGED << db, ed, commits, edits >>
  /\ UNCHANGED courseVars
  /\ UNCHANGED auxVars
  /\ UNCHANGED unitVars
  /\ UNCHANGED deleteVars

\* lesson.save() settles; res.json({success: true, data: lesson}) follows on
\* both paths
GetLessonSaved(r, storeOk) ==
  /\ req[r].pc = "saving"
  /\ LET l == req[r].lesson
         lesson == req[r].local
         accepted == SaveAccepted(db[l], lesson, storeOk) IN
       /\ db' = [db EXCEPT ![l] = SaveResult(db[l], lesson, accepted)]
       /\ commits' = [commits EXCEPT ![l] = IF accepted THEN @ + 1 ELSE @]
       /\ failures' = [failures EXCEPT ![l] = IF accepted THEN @ ELSE Bump(l)]
       /\ req' = [req EXCEPT ![r] =
            [@ EXCEPT !.pc = "done", !.status = 200, !.seen = << >>,
                      !.outcome = IF accepted THEN "ok" ELSE "save",
                      !.local =
                         IF accepted
                           THEN [lesson EXCEPT !.v = lesson.v + 1,
                                   !.readingTime = ReadingTime(lesson.content)]
                         ELSE IF ContentValid(lesson.content)
                                 /\ MinutesValid(lesson.estimatedMinutes)
                           THEN [lesson EXCEPT
                                   !.readingTime = ReadingTime(lesson.content)]
                         ELSE lesson]]
  /\ UNCHANGED << ed, edits >>
  /\ UNCHANGED courseVars
  /\ UNCHANGED auxVars
  /\ UNCHANGED unitVars
  /\ UNCHANGED deleteVars

\* The body getLesson answers with: res.json({success: true, data: lesson})
\* on every path after the ownership check, an error body before it
Response(r) ==
  [status |-> req[r].status,
   success |-> req[r].status = 200,
   error |-> req[r].status # 200,
   data |-> req[r].local]

\* The response has been sent: the request is over
GetLessonEnd(r) ==
  /\ req[r].pc = "done"
  /\ req' = [req EXCEPT ![r] = IdleReq]
  /\ UNCHANGED << db, ed, failures, commits, edits >>
  /\ UNCHANGED courseVars
  /\ UNCHANGED auxVars
  /\ UNCHANGED unitVars
  /\ UNCHANGED deleteVars

(* --------------- lessonController: the editing handlers ---------------- *)
\* A block of a request body: its type and, when hasText, its text
EditBlock(type, hasText, text) == [type |-> type, hasText |-> hasText, text |-> text]

\* The blocks of addContentBlock bodies
EditBlocks ==
  { EditBlock("paragraph", TRUE, "user"),
    EditBlock("quiz", TRUE, "user") }

\* The blocks of updateContentBlock bodies: one changes the type only
PatchBlocks ==
  EditBlocks \cup { EditBlock("heading", FALSE, "") }

\* The content arrays an updateLesson body carries
UserContents ==
  { << >>, << Block("quiz", "user") >> }

\* The updateLesson bodies: content and estimatedMinutes are both optional
UpdateBodies ==
  [hasContent : {TRUE}, content : UserContents, estimatedMinutes : {0}]
    \cup [hasContent : {FALSE}, content : {<< >>}, estimatedMinutes : {45}]

\* routes/lessons.js contentBlockValidation: body('block.type').isIn([...])
contentBlockValidation(block) == block.type \in ValidTypes

\* The block as stored when it is pushed or spliced into the array
AsBlock(block) == Block(block.type, IF block.hasText THEN block.text ELSE "")

\* { ...lesson.content[blockIndex], ...block }
Merged(old, block) ==
  Block(block.type, IF block.hasText THEN block.text ELSE old.text)

\* An insertion after the element at position instead of before it
InsertAfter(c, position, b) ==
  SubSeq(c, 1, position + 1) \o << b >> \o SubSeq(c, position + 2, Len(c))

\* Array.prototype.splice(position, 0, block), position 0-based
InsertAt(c, position, b) ==
  SubSeq(c, 1, position) \o << b >> \o SubSeq(c, position + 1, Len(c))

\* Array.prototype.splice(blockIndex, 1), blockIndex 0-based
RemoveAt(c, blockIndex) ==
  SubSeq(c, 1, blockIndex) \o SubSeq(c, blockIndex + 2, Len(c))

\* The update {$set: {'content.<index>': b}} applied to a stored array:
\* MongoDB fills the indexes below a missing one with null
SetAt(c, index, b) ==
  [i \in 1..Max(Len(c), index + 1) |->
     IF i = index + 1 THEN b ELSE IF i <= Len(c) THEN c[i] ELSE NullBlock]

\* addContentBlock up to its lesson.save(): route validation, 404, 403, the
\* type checks, then push (a $push update) or splice (the array set whole)
AddContentBlock(l, u, block, position) ==
  /\ ed.pc = "idle"
  /\ edits < MaxEdits
  /\ IF /\ contentBlockValidation(block)
        /\ db[l].exists
        /\ Creator = u
        /\ block.type # "" /\ block.type \in ValidTypes
       THEN ed' =
              IF position = -1 \/ position >= Len(db[l].content)
                THEN [pc |-> "saving", lesson |-> l, mode |-> "push",
                      content |-> Append(db[l].content, AsBlock(block)),
                      v |-> db[l].v, index |-> 0, block |-> AsBlock(block)]
                ELSE [pc |-> "saving", lesson |-> l, mode |-> "set",
                      content |-> InsertAt(db[l].content, position, AsBlock(block)),
                      v |-> db[l].v, index |-> position, block |-> AsBlock(block)]
       ELSE UNCHANGED ed
  /\ edits' = IF ed' # ed THEN edits + 1 ELSE edits
  /\ UNCHANGED << db, req, failures, commits >>
  /\ UNCHANGED courseVars
  /\ UNCHANGED auxVars
  /\ UNCHANGED unitVars
  /\ UNCHANGED deleteVars

\* deleteContentBlock up to its lesson.save()
DeleteContentBlock(l, u, blockIndex) ==
  /\ ed.pc = "idle"
  /\ edits < MaxEdits
  /\ IF /\ db[l].exists
        /\ Creator = u
        /\ ~(blockIndex < 0 \/ blockIndex >= Len(db[l].content))
       THEN ed' = [pc |-> "saving", lesson |-> l, mode |-> "set",
                   content |-> RemoveAt(db[l].content, blockIndex),
                   v |-> db[l].v, index |-> blockIndex, block |-> NullBlock]
       ELSE UNCHANGED ed
  /\ edits' = IF ed' # ed THEN edits + 1 ELSE edits
  /\ UNCHANGED << db, req, failures, commits >>
  /\ UNCHANGED courseVars
  /\ UNCHANGED auxVars
  /\ UNCHANGED unitVars
  /\ UNCHANGED deleteVars

\* updateContentBlock up to its lesson.save(). The assignment to
\* lesson.content[blockIndex] is seen by Mongoose 6+ (array proxies), giving
\* a $set of that index; older versions do not see it and save() writes nothing
UpdateContentBlock(l, u, blockIndex, block, tracked) ==
  /\ ed.pc = "idle"
  /\ edits < MaxEdits
  /\ IF /\ contentBlockValidation(block)
        /\ db[l].exists
        /\ Creator = u
        /\ ~(blockIndex < 0 \/ blockIndex >= Len(db[l].content))
       THEN ed' = [pc |-> "saving", lesson |-> l,
                   mode |-> IF tracked THEN "index" ELSE "untracked",
                   content |-> [db[l].content EXCEPT ![blockIndex + 1] = Merged(@, block)],
                   v |-> db[l].v, index |-> blockIndex,
                   block |-> Merged(db[l].content[blockIndex + 1], block)]
       ELSE UNCHANGED ed
  /\ edits' = IF ed' # ed THEN edits + 1 ELSE edits
  /\ UNCHANGED << db, req, failures, commits >>
  /\ UNCHANGED courseVars
  /\ UNCHANGED auxVars
  /\ UNCHANGED unitVars
  /\ UNCHANGED deleteVars

\* Whether the lesson.save() of an editing handler is applied
EditAccepted(stored, storeOk) ==
  /\ ed.mode # "untracked"
  /\ ContentValid(ed.content)
  /\ storeOk
  /\ stored.exists
  /\ ed.mode \in {"set", "index"} => stored.v = ed.v

\* An edit that would mark the lesson for generation again
EditResultUnenriching(stored) ==
  [stored EXCEPT !.content = ed.content,
                 !.readingTime = ReadingTime(ed.content),
                 !.isEnriched = FALSE,
                 !.v = stored.v + 1]

\* The document after the update that save() sends for the edit
EditResult(stored) ==
  CASE ed.mode = "push" ->
         [stored EXCEPT !.content = Append(stored.content, ed.block),
                        !.readingTime = ReadingTime(ed.content),
                        !.v = stored.v + 1]
    [] ed.mode = "set" ->
         [stored EXCEPT !.content = ed.content,
                        !.readingTime = ReadingTime(ed.content),
                        !.v = stored.v + 1]
    [] ed.mode = "index" ->
         [stored EXCEPT !.content = SetAt(stored.content, ed.index, ed.block),
                        !.readingTime = ReadingTime(ed.content)]
    [] OTHER -> stored

\* The lesson.save() of addContentBlock, deleteContentBlock or
\* updateContentBlock settles and the handler answers
BlockEditSaved(storeOk) ==
  /\ ed.pc = "saving"
  /\ LET l == ed.lesson
         accepted == EditAccepted(db[l], storeOk) IN
       /\ db' = [db EXCEPT ![l] = IF accepted THEN EditResult(db[l]) ELSE db[l]]
  /\ ed' = IdleEd
  /\ UNCHANGED << req, failures, commits, edits >>
  /\ UNCHANGED courseVars
  /\ UNCHANGED auxVars
  /\ UNCHANGED unitVars
  /\ UNCHANGED deleteVars

\* updateLesson: the ownership check, then Lesson.findByIdAndUpdate with
\* runValidators: one update of the paths present in the body, which runs
\* no save hook and touches neither isEnriched nor the version
UpdateLesson(l, u, hasContent, content, estimatedMinutes) ==
  /\ edits < MaxEdits
  /\ db[l].exists
  /\ Creator = u
  /\ LET accepted == (hasContent => ContentValid(content))
                       /\ MinutesValid(estimatedMinutes)
         updated ==
           [db[l] EXCEPT
              !.content = IF hasContent THEN content ELSE @,
              !.estimatedMinutes =
                 IF estimatedMinutes # 0 THEN estimatedMinutes ELSE @] IN
       /\ db' = [db EXCEPT ![l] = IF accepted THEN updated ELSE @]
  /\ edits' = edits + 1
  /\ UNCHANGED << req, ed, failures, commits >>
  /\ UNCHANGED courseVars
  /\ UNCHANGED auxVars
  /\ UNCHANGED unitVars
  /\ UNCHANGED deleteVars

(* ------------- the course outline of AIService.generateCourse ---------- *)
\* A lesson stub of an outline: title '' stands for a missing title, and
\* order is supplied only when hasOrder
StubOutline(title, hasOrder, order) ==
  [title |-> title, hasOrder |-> hasOrder, order |-> order]

ModuleOutline(title, hasOrder, order, lessons) ==
  [title |-> title, hasOrder |-> hasOrder, order |-> order, lessons |-> lessons]

\* What the model's JSON decodes to; modulesKind tells a missing modules
\* field and a non-array one from an array
CourseData(title, description, modulesKind, moduleList) ==
  [title |-> title, description |-> description, modulesKind |-> modulesKind,
   modules |-> moduleList]

\* Two modules with two and one lessons, orders partly supplied
OutlineTwo ==
  CourseData("C", "D", "array",
    << ModuleOutline("M0", FALSE, 0,
         << StubOutline("L0", FALSE, 0), StubOutline("L1", TRUE, 5) >>),
       ModuleOutline("M1", TRUE, 3, << StubOutline("L2", FALSE, 0) >>) >>)

\* Every order supplied as 0, as the prompt's example shows it
OutlineZero ==
  CourseData("C", "D", "array",
    << ModuleOutline("M0", TRUE, 0, << StubOutline("L0", TRUE, 0) >>),
       ModuleOutline("M1", TRUE, 0,
         << StubOutline("L1", TRUE, 1), StubOutline("L2", TRUE, 0) >>) >>)

\* The second lesson has no title
OutlineNoLessonTitle ==
  CourseData("C", "D", "array",
    << ModuleOutline("M0", FALSE, 0,
         << StubOutline("L0", FALSE, 0), StubOutline("", FALSE, 0) >>) >>)

\* A negative module order
OutlineNegative ==
  CourseData("C", "D", "array",
    << ModuleOutline("M0", TRUE, -1, << StubOutline("L0", FALSE, 0) >>) >>)

OutlineNoTitle ==
  CourseData("", "D", "array",
    << ModuleOutline("M0", FALSE, 0, << StubOutline("L0", FALSE, 0) >>) >>)
OutlineNoDescription ==
  CourseData("C", "", "array",
    << ModuleOutline("M0", FALSE, 0, << StubOutline("L0", FALSE, 0) >>) >>)
OutlineNoModules == CourseData("C", "D", "missing", << >>)
OutlineEmptyModules == CourseData("C", "D", "array", << >>)
OutlineStringModules == CourseData("C", "D", "string", << >>)
OutlineModuleNoTitle ==
  CourseData("C", "D", "array",
    << ModuleOutline("", FALSE, 0, << StubOutline("L0", FALSE, 0) >>) >>)
OutlineModuleNoLessons ==
  CourseData("C", "D", "array", << ModuleOutline("M0", FALSE, 0, << >>) >>)

\* What ai.models.generateContent settles with for the outline prompt
CourseResponses ==
  { Envelope("reject", "absent", "absent", Plain(OutlineTwo)),
    Envelope("resolve", "absent", "absent", Plain(OutlineTwo)),
    Envelope("resolve", "absent", "notext", Plain(OutlineTwo)),
    Envelope("resolve", "absent", "text", Plain(OutlineZero)),
    Direct(RawText(TRUE, "none", TRUE, OutlineTwo)),
    Direct(RawText(FALSE, "none", FALSE, OutlineTwo)),
    Direct(RawText(FALSE, "json", TRUE, OutlineTwo)),
    Direct(Plain(OutlineTwo)),
    Direct(Plain(OutlineZero)),
    Direct(Plain(OutlineNoLessonTitle)),
    Direct(Plain(OutlineNegative)),
    Direct(Plain(OutlineNoTitle)),
    Direct(Plain(OutlineNoDescription)),
    Direct(Plain(OutlineNoModules)),
    Direct(Plain(OutlineEmptyModules)),
    Direct(Plain(OutlineStringModules)),
    Direct(Plain(OutlineModuleNoTitle)),
    Direct(Plain(OutlineModuleNoLessons)) }

\* A validation that does not look at the modules' lessons
validateCourseTitlesOnly(courseData) ==
  IF \/ courseData.title = "" \/ courseData.description = ""
     \/ courseData.modulesKind = "missing"
    THEN "missingFields"
  ELSE IF courseData.modulesKind # "array" \/ Len(courseData.modules) = 0
    THEN "noModules"
  ELSE IF \E i \in 1..Len(courseData.modules) : courseData.modules[i].title = ""
    THEN "moduleTitle"
  ELSE "ok"

\* A validation that accepts every outline
validateCourseNothing(courseData) == "ok"

\* AIService.validateCourseStructure: "ok" or the error it throws
validateCourseStructure(courseData) ==
  IF \/ courseData.title = "" \/ courseData.description = ""
     \/ courseData.modulesKind = "missing"
    THEN "missingFields"
  ELSE IF courseData.modulesKind # "array" \/ Len(courseData.modules) = 0
    THEN "noModules"
  ELSE IF \E i \in 1..Len(courseData.modules) :
            /\ \A k \in 1..(i - 1) :
                 /\ courseData.modules[k].title # ""
                 /\ Len(courseData.modules[k].lessons) > 0
            /\ courseData.modules[i].title = ""
    THEN "moduleTitle"
  ELSE IF \E i \in 1..Len(courseData.modules) :
            Len(courseData.modules[i].lessons) = 0
    THEN "moduleLessons"
  ELSE "ok"

\* AIService.generateCourse after the model call settled with response: the
\* outline it returns, or (ok = FALSE) the reason of the one
\* 'Failed to generate course' error that its catch block throws
generateCourse(response) ==
  IF response.settle = "reject"
    THEN [ok |-> FALSE, reason |-> "transport", data |-> response.raw.data]
  ELSE IF ~extractText(response).ok
    THEN [ok |-> FALSE, reason |-> "extraction", data |-> response.raw.data]
  ELSE IF ~parseJSONResponse(extractText(response)).ok
    THEN [ok |-> FALSE, reason |-> "parse", data |-> response.raw.data]
  ELSE IF validateCourseStructure(parseJSONResponse(extractText(response)).data) # "ok"
    THEN [ok |-> FALSE, reason |-> "schema", data |-> response.raw.data]
  ELSE [ok |-> TRUE, reason |-> "none",
        data |-> parseJSONResponse(extractText(response)).data]

(* ----------------- courseController.generateCourse --------------------- *)
\* The topics of request bodies, and the length of topic.trim()
Topics == {"missing", "empty", "blank", "ok"}
TrimLength(topic) == IF topic = "ok" THEN 14 ELSE 0

\* A handler that lets every topic through
TopicNeverRejected(topic) == FALSE

\* if (!topic || topic.trim().length === 0): the 400 answer
TopicRejected(topic) == topic \in {"missing", "empty"} \/ TrimLength(topic) = 0

\* moduleData.order || i and lessonData.order || j
DefaultOrder(hasOrder, order, position) ==
  IF hasOrder /\ order # 0 THEN order ELSE position

\* new Course({...}): creator and title are required
NewCourse(by) == [by |-> by, modules |-> << >>]
CourseValid(title) == title # ""

\* new Module({...}): title and order are required, order has min 0
NewModule(by, course, order) ==
  [by |-> by, course |-> course, order |-> order, lessons |-> << >>]
ModuleValid(title, order) == title # "" /\ order >= 0

\* new Lesson({...}) with the placeholder paragraph and isEnriched: false
NewStub(by, module, order) ==
  [by |-> by, module |-> module, order |-> order, isEnriched |-> FALSE,
   content |-> PlaceholderContent]
StubValid(title, order) == title # "" /\ order >= 0

\* An addLesson that saves without pushing
addLessonDropped(lessonIds, lessonId) == lessonIds

\* Module.addLesson: push unless the id is already listed
addLesson(lessonIds, lessonId) ==
  IF \E k \in 1..Len(lessonIds) : lessonIds[k] = lessonId
    THEN lessonIds ELSE Append(lessonIds, lessonId)

\* Course.addModule: push unless the id is already listed
addModule(moduleIds, moduleId) ==
  IF \E k \in 1..Len(moduleIds) : moduleIds[k] = moduleId
    THEN moduleIds ELSE Append(moduleIds, moduleId)

\* The response cannot give an outline: the call rejected, no text can be
\* extracted, the text is not JSON, or the outline breaks the structure
\* rules (title, description, at least one module, each module titled and
\* with at least one lesson)
OutlineUnusable(response) ==
  \/ response.settle = "reject"
  \/ ~extractText(response).ok
  \/ ~parseJSONResponse(extractText(response)).ok
  \/ LET o == response.raw.data IN
       \/ o.title = "" \/ o.description = ""
       \/ o.modulesKind # "array" \/ o.modules = << >>
       \/ \E k \in 1..Len(o.modules) :
            o.modules[k].title = "" \/ o.modules[k].lessons = << >>

\* The error middleware's answer to a rejection of the handler
Abort(request) == [request EXCEPT !.pc = "done", !.status = 500]

\* The topic check, then the call of aiService.generateCourse
GenerateCourseStart(topic) ==
  /\ gc.pc = "idle"
  /\ requests < MaxRequests
  /\ gc' = IF TopicRejected(topic)
             THEN [IdleGc EXCEPT !.pc = "done", !.topic = topic, !.status = 400]
             ELSE [IdleGc EXCEPT !.pc = "outline", !.topic = topic, !.calls = 1]
  /\ UNCHANGED << requests, courses, modules, stubs >>
  /\ UNCHANGED lessonVars
  /\ UNCHANGED auxVars
  /\ UNCHANGED unitVars
  /\ UNCHANGED deleteVars

\* aiService.generateCourse settles; new Course and course.save() follow
GenerateCourseOutline(response) ==
  /\ gc.pc = "outline"
  /\ LET g == generateCourse(response)
         seen == [gc EXCEPT !.badOutline = OutlineUnusable(response)] IN
       gc' = IF g.ok
               THEN [seen EXCEPT !.pc = "courseSave", !.outline = g.data]
               ELSE Abort(seen)
  /\ UNCHANGED << requests, courses, modules, stubs >>
  /\ UNCHANGED lessonVars
  /\ UNCHANGED auxVars
  /\ UNCHANGED unitVars
  /\ UNCHANGED deleteVars

\* course.save() settles; the loop starts with the first module.save()
GenerateCourseSaved(storeOk) ==
  /\ gc.pc = "courseSave"
  /\ IF storeOk /\ CourseValid(gc.outline.title)
       THEN /\ courses' = Append(courses, NewCourse(requests + 1))
            /\ gc' = IF gc.outline.modulesKind # "array"
                       THEN Abort([gc EXCEPT !.course = Len(courses) + 1])
                       ELSE [gc EXCEPT !.course = Len(courses) + 1, !.i = 0,
                               !.pc = IF Len(gc.outline.modules) > 0
                                        THEN "moduleSave" ELSE "populate"]
       ELSE /\ gc' = Abort(gc)
            /\ UNCHANGED courses
  /\ UNCHANGED << requests, modules, stubs >>
  /\ UNCHANGED lessonVars
  /\ UNCHANGED auxVars
  /\ UNCHANGED unitVars
  /\ UNCHANGED deleteVars

\* module.save() settles; the inner loop starts with the first lesson.save()
GenerateCourseModuleSaved(storeOk) ==
  /\ gc.pc = "moduleSave"
  /\ LET moduleData == gc.outline.modules[gc.i + 1]
         order == DefaultOrder(moduleData.hasOrder, moduleData.order, gc.i) IN
       IF storeOk /\ ModuleValid(moduleData.title, order)
         THEN /\ modules' = Append(modules, NewModule(requests + 1, gc.course, order))
              /\ gc' = [gc EXCEPT !.module = Len(modules) + 1, !.j = 0,
                          !.pc = IF Len(moduleData.lessons) > 0
                                   THEN "lessonSave" ELSE "addModule"]
         ELSE /\ gc' = Abort(gc)
              /\ UNCHANGED modules
  /\ UNCHANGED << requests, courses, stubs >>
  /\ UNCHANGED lessonVars
  /\ UNCHANGED auxVars
  /\ UNCHANGED unitVars
  /\ UNCHANGED deleteVars

\* lesson.save() settles; module.addLesson(lesson._id) is called
GenerateCourseLessonSaved(storeOk) ==
  /\ gc.pc = "lessonSave"
  /\ LET lessonData == gc.outline.modules[gc.i + 1].lessons[gc.j + 1]
         order == DefaultOrder(lessonData.hasOrder, lessonData.order, gc.j) IN
       IF storeOk /\ StubValid(lessonData.title, order)
         THEN /\ stubs' = Append(stubs, NewStub(requests + 1, gc.module, order))
              /\ gc' = [gc EXCEPT !.lesson = Len(stubs) + 1, !.pc = "addLesson"]
         ELSE /\ gc' = Abort(gc)
              /\ UNCHANGED stubs
  /\ UNCHANGED << requests, courses, modules >>
  /\ UNCHANGED lessonVars
  /\ UNCHANGED auxVars
  /\ UNCHANGED unitVars
  /\ UNCHANGED deleteVars

\* The save of module.addLesson settles; the next lesson, or
\* course.addModule(module._id) after the last one
GenerateCourseLessonAdded(storeOk) ==
  /\ gc.pc = "addLesson"
  /\ IF storeOk /\ gc.module \notin removed.modules
       THEN /\ modules' = [modules EXCEPT ![gc.module].lessons =
                             addLesson(@, gc.lesson)]
            /\ gc' = [gc EXCEPT !.j = gc.j + 1,
                        !.pc = IF gc.j + 1 < Len(gc.outline.modules[gc.i + 1].lessons)
                                 THEN "lessonSave" ELSE "addModule"]
       ELSE /\ gc' = Abort(gc)
            /\ UNCHANGED modules
  /\ UNCHANGED << requests, courses, stubs >>
  /\ UNCHANGED lessonVars
  /\ UNCHANGED auxVars
  /\ UNCHANGED unitVars
  /\ UNCHANGED deleteVars

\* The save of course.addModule settles; the next module, or the
\* Course.findById(...).populate(...) after the last one
GenerateCourseModuleAdded(storeOk) ==
  /\ gc.pc = "addModule"
  /\ IF storeOk /\ gc.course \notin removed.courses
       THEN /\ courses' = [courses EXCEPT ![gc.course].modules =
                             addModule(@, gc.module)]
            /\ gc' = [gc EXCEPT !.i = gc.i + 1,
                        !.pc = IF gc.i + 1 < Len(gc.outline.modules)
                                 THEN "moduleSave" ELSE "populate"]
       ELSE /\ gc' = Abort(gc)
            /\ UNCHANGED courses
  /\ UNCHANGED << requests, modules, stubs >>
  /\ UNCHANGED lessonVars
  /\ UNCHANGED auxVars
  /\ UNCHANGED unitVars
  /\ UNCHANGED deleteVars

\* The populate query settles: res.status(201), or the error answer
GenerateCoursePopulated(storeOk) ==
  /\ gc.pc = "populate"
  /\ gc' = IF storeOk THEN [gc EXCEPT !.pc = "done", !.status = 201] ELSE Abort(gc)
  /\ UNCHANGED << requests, courses, modules, stubs >>
  /\ UNCHANGED lessonVars
  /\ UNCHANGED auxVars
  /\ UNCHANGED unitVars
  /\ UNCHANGED deleteVars

\* The response has been sent: the request is over
GenerateCourseEnd ==
  /\ gc.pc = "done"
  /\ gc' = IdleGc
  /\ requests' = requests + 1
  /\ UNCHANGED << courses, modules, stubs >>
  /\ UNCHANGED lessonVars
  /\ UNCHANGED auxVars
  /\ UNCHANGED unitVars
  /\ UNCHANGED deleteVars

(* ---------- AIService.generateCourseSuggestions and its route ---------- *)
\* An entry of a decoded JSON array: a string (text) or some other value
Entry(isString, text) == [isString |-> isString, text |-> text]
Str(text) == Entry(TRUE, text)

\* What the model's JSON decodes to: an array of entries, or an object
SuggestionData(kind, items) == [kind |-> kind, items |-> items]

EmptyList == SuggestionData("array", << >>)
FiveTopics ==
  SuggestionData("array", << Str("t1"), Str("t2"), Str("t3"), Str("t4"), Str("t5") >>)
OneTopic == SuggestionData("array", << Str("t1") >>)
SixTopics ==
  SuggestionData("array",
    << Str("t1"), Str("t2"), Str("t3"), Str("t4"), Str("t5"), Str("t6") >>)
ObjectTopics == SuggestionData("object", << >>)
NumberEntry == SuggestionData("array", << Str("t1"), Entry(FALSE, "") >>)
EmptyEntry == SuggestionData("array", << Str("t1"), Str("") >>)

SuggestionResponses ==
  { Envelope("reject", "absent", "absent", Plain(FiveTopics)),
    Envelope("resolve", "absent", "absent", Plain(FiveTopics)),
    Envelope("resolve", "absent", "noparts", Plain(FiveTopics)),
    Envelope("resolve", "absent", "notext", Plain(FiveTopics)),
    Envelope("resolve", "absent", "text", Plain(OneTopic)),
    Envelope("resolve", "function", "absent", Plain(FiveTopics)),
    Direct(RawText(TRUE, "none", TRUE, FiveTopics)),
    Direct(RawText(FALSE, "none", FALSE, FiveTopics)),
    Direct(RawText(FALSE, "other", TRUE, FiveTopics)),
    Direct(RawText(FALSE, "json", TRUE, FiveTopics)),
    Direct(Plain(FiveTopics)),
    Direct(Plain(OneTopic)),
    Direct(Plain(EmptyList)),
    Direct(Plain(SixTopics)),
    Direct(Plain(ObjectTopics)),
    Direct(Plain(NumberEntry)),
    Direct(Plain(EmptyEntry)) }

\* A generateCourseSuggestions whose catch block rethrows
suggestionsRethrown(response) ==
  IF \/ response.settle = "reject"
     \/ ~extractText(response).ok
     \/ ~parseJSONResponse(extractText(response)).ok
    THEN [raised |-> TRUE, value |-> EmptyList]
  ELSE [raised |-> FALSE, value |-> parseJSONResponse(extractText(response)).data]

\* AIService.generateCourseSuggestions after the model call settled: what
\* parseJSONResponse returned, or [] from the catch block
generateCourseSuggestions(response) ==
  IF \/ response.settle = "reject"
     \/ ~extractText(response).ok
     \/ ~parseJSONResponse(extractText(response)).ok
    THEN [raised |-> FALSE, value |-> EmptyList]
  ELSE [raised |-> FALSE, value |-> parseJSONResponse(extractText(response)).data]

\* The call rejected, the envelope has no text to extract, or the text is
\* not JSON
SuggestionUnusable(response) ==
  \/ response.settle = "reject"
  \/ response.textKind = "absent" /\ response.candKind # "text"
  \/ response.raw.prefix \/ response.raw.fence = "other" \/ ~response.raw.valid

\* The partialTopic of request bodies, and the length of partialTopic.trim()
PartialTopics == {"missing", "a", "ab", "react"}
PartialLength(partialTopic) ==
  CASE partialTopic = "a" -> 1
    [] partialTopic = "ab" -> 2
    [] partialTopic = "react" -> 5
    [] OTHER -> 0

IdleSg ==
  [pc |-> "idle", partialTopic |-> "missing", status |-> 0, data |-> EmptyList,
   raised |-> FALSE, failed |-> FALSE]

\* getCourseSuggestions: the length check, then the call of the service
GetCourseSuggestionsStart(partialTopic) ==
  /\ sg.pc = "idle"
  /\ sg' = IF partialTopic = "missing" \/ PartialLength(partialTopic) < 2
             THEN [IdleSg EXCEPT !.pc = "done", !.partialTopic = partialTopic,
                                 !.status = 400]
             ELSE [IdleSg EXCEPT !.pc = "calling", !.partialTopic = partialTopic]
  /\ UNCHANGED tr
  /\ UNCHANGED lessonVars
  /\ UNCHANGED courseVars
  /\ UNCHANGED unitVars
  /\ UNCHANGED deleteVars

\* The model call settles; res.json({success: true, data: suggestions}), or
\* data: [] from the handler's own catch block
GetCourseSuggestionsSettled(response) ==
  /\ sg.pc = "calling"
  /\ LET suggestions == generateCourseSuggestions(response) IN
       sg' = [sg EXCEPT !.pc = "done", !.status = 200,
                        !.raised = suggestions.raised,
                        !.failed = SuggestionUnusable(response),
                        !.data = IF suggestions.raised THEN EmptyList
                                 ELSE suggestions.value]
  /\ UNCHANGED tr
  /\ UNCHANGED lessonVars
  /\ UNCHANGED courseVars
  /\ UNCHANGED unitVars
  /\ UNCHANGED deleteVars

\* The response has been sent: the request is over
GetCourseSuggestionsEnd ==
  /\ sg.pc = "done"
  /\ sg' = IdleSg
  /\ UNCHANGED tr
  /\ UNCHANGED lessonVars
  /\ UNCHANGED courseVars
  /\ UNCHANGED unitVars
  /\ UNCHANGED deleteVars

(* ------------- AIService.translateToHinglish and its route ------------- *)
\* String.prototype.trim on a text given as its sequence of characters
RECURSIVE TrimStart(_)
TrimStart(text) ==
  IF text # << >> /\ Head(text) = " " THEN TrimStart(Tail(text)) ELSE text

RECURSIVE TrimEnd(_)
TrimEnd(text) ==
  IF text # << >> /\ text[Len(text)] = " "
    THEN TrimEnd(SubSeq(text, 1, Len(text) - 1)) ELSE text

Trim(text) == TrimEnd(TrimStart(text))

\* What ai.models.generateContent settles with for the translation prompt
TranslationResponses ==
  { Envelope("reject", "absent", "absent", << "k", "y", "a" >>),
    Envelope("resolve", "absent", "absent", << "k", "y", "a" >>),
    Envelope("resolve", "absent", "notext", << "k", "y", "a" >>),
    Envelope("resolve", "absent", "text", << "k", "y", "a" >>),
    Envelope("resolve", "function", "absent", << " ", "h", " ", "i", " " >>),
    Direct(<< "k", "y", "a" >>),
    Direct(<< " ", "h", " ", "i", " " >>),
    Direct(<< "{", "}" >>),
    Direct(<< "[" >>),
    Direct(<< >>),
    Direct(<< " ", " " >>) }

\* AIService.translateToHinglish after the model call settled: the trimmed
\* text, or (ok = FALSE) the 'Failed to translate text' error; trim of an
\* undefined text throws inside the try block
translateToHinglish(response) ==
  IF response.settle = "reject" THEN [ok |-> FALSE, value |-> << >>]
  ELSE IF ~extractText(response).ok THEN [ok |-> FALSE, value |-> << >>]
  ELSE IF ~extractText(response).isString THEN [ok |-> FALSE, value |-> << >>]
  ELSE [ok |-> TRUE, value |-> Trim(extractText(response).raw)]

\* The texts of request bodies
TranslateTexts == {"hello", "closures"}

IdleTr == [pc |-> "idle", text |-> "", status |-> 0, value |-> << >>]

\* The translate-hinglish handler calls the service
TranslateStart(text) ==
  /\ tr.pc = "idle"
  /\ tr' = [IdleTr EXCEPT !.pc = "calling", !.text = text]
  /\ UNCHANGED sg
  /\ UNCHANGED lessonVars
  /\ UNCHANGED courseVars
  /\ UNCHANGED unitVars
  /\ UNCHANGED deleteVars

\* The model call settles: res.json with translatedText, or the 500 answer
TranslateSettled(response) ==
  /\ tr.pc = "calling"
  /\ LET translatedText == translateToHinglish(response) IN
       tr' = [tr EXCEPT !.pc = "done",
                        !.status = IF translatedText.ok THEN 200 ELSE 500,
                        !.value = translatedText.value]
  /\ UNCHANGED sg
  /\ UNCHANGED lessonVars
  /\ UNCHANGED courseVars
  /\ UNCHANGED unitVars
  /\ UNCHANGED deleteVars

\* The response has been sent: the request is over
TranslateEnd ==
  /\ tr.pc = "done"
  /\ tr' = IdleTr
  /\ UNCHANGED sg
  /\ UNCHANGED lessonVars
  /\ UNCHANGED courseVars
  /\ UNCHANGED unitVars
  /\ UNCHANGED deleteVars

(* ------------------ courseController.deleteCourse ---------------------- *)
IdleDc == [pc |-> "idle", course |-> 0, found |-> << >>, k |-> 0, status |-> 0]

\* The ids of the persisted modules of course c, as Module.find returns them
RECURSIVE ModulesOf(_, _)
ModulesOf(c, upTo) ==
  IF upTo = 0 THEN << >>
  ELSE IF modules[upTo].course = c /\ upTo \notin removed.modules
    THEN Append(ModulesOf(c, upTo - 1), upTo)
  ELSE ModulesOf(c, upTo - 1)

\* The ids of the persisted lessons whose module is m
LessonsOf(m) == {s \in 1..Len(stubs) : stubs[s].module = m} \ removed.stubs

\* Course.findById, the 404 and 403 answers, then Module.find({course})
DeleteCourseFind(c, u) ==
  /\ dc.pc = "idle"
  /\ dc' = IF c > Len(courses) \/ c \in removed.courses
             THEN [IdleDc EXCEPT !.pc = "done", !.course = c, !.status = 404]
           ELSE IF Creator # u
             THEN [IdleDc EXCEPT !.pc = "done", !.course = c, !.status = 403]
           ELSE [IdleDc EXCEPT !.pc = "findModules", !.course = c]
  /\ UNCHANGED removed
  /\ UNCHANGED lessonVars
  /\ UNCHANGED courseVars
  /\ UNCHANGED auxVars
  /\ UNCHANGED unitVars

\* Module.find settles; the loop starts with Lesson.deleteMany({module})
DeleteCourseModulesFound(storeOk) ==
  /\ dc.pc = "findModules"
  /\ dc' = IF ~storeOk THEN Abort(dc)
           ELSE LET found == ModulesOf(dc.course, Len(modules)) IN
                  [dc EXCEPT !.found = found, !.k = 1,
                             !.pc = IF found = << >> THEN "courseHook"
                                    ELSE "deleteLessons"]
  /\ UNCHANGED removed
  /\ UNCHANGED lessonVars
  /\ UNCHANGED courseVars
  /\ UNCHANGED auxVars
  /\ UNCHANGED unitVars

\* Lesson.deleteMany({module: module._id}) settles; module.remove() is called
DeleteCourseLessonsDeleted(storeOk) ==
  /\ dc.pc = "deleteLessons"
  /\ IF storeOk
       THEN /\ removed' = [removed EXCEPT !.stubs = @ \cup LessonsOf(dc.found[dc.k])]
            /\ dc' = [dc EXCEPT !.pc = "moduleHook"]
       ELSE /\ dc' = Abort(dc)
            /\ UNCHANGED removed
  /\ UNCHANGED lessonVars
  /\ UNCHANGED courseVars
  /\ UNCHANGED auxVars
  /\ UNCHANGED unitVars

\* moduleSchema.pre('remove'): Lesson.deleteMany({module: this._id}) settles
DeleteCourseModuleHook(storeOk) ==
  /\ dc.pc = "moduleHook"
  /\ IF storeOk
       THEN /\ removed' = [removed EXCEPT !.stubs = @ \cup LessonsOf(dc.found[dc.k])]
            /\ dc' = [dc EXCEPT !.pc = "removeModule"]
       ELSE /\ dc' = Abort(dc)
            /\ UNCHANGED removed
  /\ UNCHANGED lessonVars
  /\ UNCHANGED courseVars
  /\ UNCHANGED auxVars
  /\ UNCHANGED unitVars

\* The delete of module.remove() settles; the next module, or course.remove()
DeleteCourseModuleRemoved(storeOk) ==
  /\ dc.pc = "removeModule"
  /\ IF storeOk
       THEN /\ removed' = [removed EXCEPT !.modules = @ \cup {dc.found[dc.k]}]
            /\ dc' = [dc EXCEPT !.k = dc.k + 1,
                        !.pc = IF dc.k < Len(dc.found) THEN "deleteLessons"
                               ELSE "courseHook"]
       ELSE /\ dc' = Abort(dc)
            /\ UNCHANGED removed
  /\ UNCHANGED lessonVars
  /\ UNCHANGED courseVars
  /\ UNCHANGED auxVars
  /\ UNCHANGED unitVars

\* courseSchema.pre('remove'): Module.deleteMany({course: this._id}) settles;
\* deleteMany runs no document middleware, so no lesson is deleted here
DeleteCourseHook(storeOk) ==
  /\ dc.pc = "courseHook"
  /\ IF storeOk
       THEN /\ removed' = [removed EXCEPT !.modules =
                             @ \cup {m \in 1..Len(modules) : modules[m].course = dc.course}]
            /\ dc' = [dc EXCEPT !.pc = "removeCourse"]
       ELSE /\ dc' = Abort(dc)
            /\ UNCHANGED removed
  /\ UNCHANGED lessonVars
  /\ UNCHANGED courseVars
  /\ UNCHANGED auxVars
  /\ UNCHANGED unitVars

\* The delete of course.remove() settles: res.json({success: true, ...})
DeleteCourseRemoved(storeOk) ==
  /\ dc.pc = "removeCourse"
  /\ IF storeOk
       THEN /\ removed' = [removed EXCEPT !.courses = @ \cup {dc.course}]
            /\ dc' = [dc EXCEPT !.pc = "done", !.status = 200]
       ELSE /\ dc' = Abort(dc)
            /\ UNCHANGED removed
  /\ UNCHANGED lessonVars
  /\ UNCHANGED courseVars
  /\ UNCHANGED auxVars
  /\ UNCHANGED unitVars

\* The response has been sent: the request is over
DeleteCourseEnd ==
  /\ dc.pc = "done"
  /\ dc' = IdleDc
  /\ UNCHANGED removed
  /\ UNCHANGED lessonVars
  /\ UNCHANGED courseVars
  /\ UNCHANGED auxVars
  /\ UNCHANGED unitVars

(* -------------------- AIService: single calls -------------------------- *)
\* The parsed outlines validateCourseStructure is called with
ParsedOutlines ==
  { OutlineTwo, OutlineZero, OutlineNoLessonTitle, OutlineNegative,
    OutlineNoTitle, OutlineNoDescription, OutlineNoModules,
    OutlineEmptyModules, OutlineStringModules, OutlineModuleNoTitle,
    OutlineModuleNoLessons }

\* this.extractText(response)
CallExtractText(response) ==
  /\ unit' = [fn |-> "extractText", input |-> response,
              output |-> extractText(response)]
  /\ UNCHANGED lessonVars
  /\ UNCHANGED courseVars
  /\ UNCHANGED auxVars
  /\ UNCHANGED deleteVars

\* this.validateCourseStructure(courseData)
CallValidateCourseStructure(courseData) ==
  /\ unit' = [fn |-> "validateCourseStructure", input |-> courseData,
              output |-> validateCourseStructure(courseData)]
  /\ UNCHANGED lessonVars
  /\ UNCHANGED courseVars
  /\ UNCHANGED auxVars
  /\ UNCHANGED deleteVars

(* ---------------------- helpers.retryWithBackoff ----------------------- *)
\* What a call of fn settles with: a value, or an error
Outcome(ok, value) == [ok |-> ok, value |-> value]
Outcomes == { Outcome(TRUE, "v"), Outcome(FALSE, "e1"), Outcome(FALSE, "e2") }

\* The maxRetries and baseDelay arguments: numbers of retries, milliseconds
RetryCounts == 0..MaxRetries
BaseDelays == {0, 250, 1000}

\* Math.pow(2, i)
RECURSIVE Pow2(_)
Pow2(i) == IF i = 0 THEN 1 ELSE 2 * Pow2(i - 1)

\* A wait that does not grow
ConstantBackoff(baseDelay, i) == baseDelay

\* const delay = baseDelay * Math.pow(2, i)
Backoff(baseDelay, i) == baseDelay * Pow2(i)

\* Whether a retryWithBackoff call is between its call and its return
Retrying ==
  /\ unit.fn = "retryWithBackoff"
  /\ unit.output.pc \in {"calling", "waiting"}

\* The call in progress: its loop counter, the outcomes of the calls of fn
\* so far, the waits so far, and what it returned or threw
Rt(pc, i, outcomes, delays, result) ==
  [pc |-> pc, i |-> i, outcomes |-> outcomes, delays |-> delays, result |-> result]

\* retryWithBackoff(fn, maxRetries, baseDelay) is called: i = 0 passes the
\* loop test and fn is called
RetryStart(maxRetries, baseDelay) ==
  /\ ~Retrying
  /\ unit' = [fn |-> "retryWithBackoff",
              input |-> [maxRetries |-> maxRetries, baseDelay |-> baseDelay],
              output |-> Rt("calling", 0, << >>, << >>, "none")]
  /\ UNCHANGED lessonVars
  /\ UNCHANGED courseVars
  /\ UNCHANGED auxVars
  /\ UNCHANGED deleteVars

\* The call of fn settles: return its value, or keep the error and either
\* throw it (i === maxRetries) or start the timer of the wait
RetrySettled(outcome) ==
  /\ Retrying
  /\ unit.output.pc = "calling"
  /\ LET rt == unit.output
         outcomes == Append(rt.outcomes, outcome) IN
       unit' = [unit EXCEPT !.output =
         IF outcome.ok
           THEN Rt("returned", rt.i, outcomes, rt.delays, outcome.value)
         ELSE IF rt.i = unit.input.maxRetries
           THEN Rt("thrown", rt.i, outcomes, rt.delays, outcome.value)
         ELSE Rt("waiting", rt.i, outcomes,
                 Append(rt.delays, Backoff(unit.input.baseDelay, rt.i)), "none")]
  /\ UNCHANGED lessonVars
  /\ UNCHANGED courseVars
  /\ UNCHANGED auxVars
  /\ UNCHANGED deleteVars

\* The timer fires: i++, the loop test passes and fn is called again
RetryTimer ==
  /\ Retrying
  /\ unit.output.pc = "waiting"
  /\ unit.output.i + 1 <= unit.input.maxRetries
  /\ unit' = [unit EXCEPT !.output.pc = "calling", !.output.i = @ + 1]
  /\ UNCHANGED lessonVars
  /\ UNCHANGED courseVars
  /\ UNCHANGED auxVars
  /\ UNCHANGED deleteVars

(* ------------------- moduleSchema.methods.reorderLessons ---------------- *)
LessonIds == {1, 2, 3}

\* The lists of identifiers of at most n entries
IdLists(n) == UNION { [1..k -> LessonIds] : k \in 0..n }

NoDuplicates(list) ==
  \A i \in 1..Len(list), j \in 1..Len(list) : list[i] = list[j] => i = j

\* The lessons a module can hold: addLesson pushes an identifier only when
\* the list does not include it
ModuleLessons == { list \in IdLists(3) : NoDuplicates(list) }

\* lessonIds.filter(id => this.lessons.some(lessonId => lessonId.equals(id)))
RECURSIVE FilterKnown(_, _)
FilterKnown(lessonIds, lessons) ==
  IF lessonIds = << >> THEN << >>
  ELSE LET rest == FilterKnown(Tail(lessonIds), lessons) IN
         IF \E i \in 1..Len(lessons) : lessons[i] = Head(lessonIds)
           THEN << Head(lessonIds) >> \o rest
           ELSE rest

\* reorderLessons: whether it throws, and the lessons list persisted after it
reorderLessons(lessons, lessonIds, storeOk) ==
  LET validIds == FilterKnown(lessonIds, lessons) IN
    IF Len(validIds) # Len(lessons)
      THEN [thrown |-> TRUE, lessons |-> lessons]
    ELSE IF storeOk
      THEN [thrown |-> FALSE, lessons |-> validIds]
    ELSE [thrown |-> TRUE, lessons |-> lessons]

\* module.reorderLessons(lessonIds) on a module holding lessons
CallReorderLessons(lessons, lessonIds, storeOk) ==
  /\ unit' = [fn |-> "reorderLessons",
              input |-> [lessons |-> lessons, lessonIds |-> lessonIds],
              output |-> reorderLessons(lessons, lessonIds, storeOk)]
  /\ UNCHANGED lessonVars
  /\ UNCHANGED courseVars
  /\ UNCHANGED auxVars
  /\ UNCHANGED deleteVars

(* --------------------------- specification ----------------------------- *)
\* The editing specification follows one lesson and one getLesson request
EditReaders == {1}
EditLessons == {1}

\* Its updateLesson bodies replace the content
EditBodies == [hasContent : {TRUE}, content : UserContents, estimatedMinutes : {0}]

\* Concurrent getLesson requests, with updateLesson as the user's edit
Next ==
  \/ \E l \in Lessons : CreatePlaceholder(l)
  \/ \E r \in Readers, l \in Lessons, u \in Users : GetLessonFind(r, l, u)
  \/ \E r \in Readers, response \in LessonResponses : GetLessonGenerated(r, response)
  \/ \E r \in Readers, storeOk \in BOOLEAN : GetLessonSaved(r, storeOk)
  \/ \E r \in Readers : GetLessonEnd(r)
  \/ \E l \in Lessons, u \in Users, body \in UpdateBodies :
       UpdateLesson(l, u, body.hasContent, body.content, body.estimatedMinutes)

Spec == Init /\ [][Next]_vars

\* The same requests under the scheduling the handler can rely on: a store
\* operation settles (the connection has socket and server-selection time
\* limits) and the continuation of a settled promise runs. Nothing makes a
\* request arrive, and nothing in generateLesson makes the model call settle.
SpecLive ==
  /\ Init
  /\ [][Next]_vars
  /\ \A r \in Readers :
       /\ WF_vars(\E storeOk \in BOOLEAN : GetLessonSaved(r, storeOk))
       /\ WF_vars(GetLessonEnd(r))

\* Every handler that writes a lesson, with one getLesson request at a time
NextEdit ==
  \/ \E l \in EditLessons : CreatePlaceholder(l)
  \/ \E r \in EditReaders, l \in EditLessons, u \in Users : GetLessonFind(r, l, u)
  \/ \E r \in EditReaders, response \in LessonResponses : GetLessonGenerated(r, response)
  \/ \E r \in EditReaders, storeOk \in BOOLEAN : GetLessonSaved(r, storeOk)
  \/ \E r \in EditReaders : GetLessonEnd(r)
  \/ \E l \in EditLessons, u \in Users, body \in EditBodies :
       UpdateLesson(l, u, body.hasContent, body.content, body.estimatedMinutes)
  \/ \E l \in EditLessons, u \in Users, block \in EditBlocks :
       \E position \in -1..Len(db[l].content) :
         AddContentBlock(l, u, block, position)
  \/ \E l \in EditLessons, u \in Users :
       \E blockIndex \in 0..Len(db[l].content) :
         DeleteContentBlock(l, u, blockIndex)
  \/ \E l \in EditLessons, u \in Users, block \in PatchBlocks, tracked \in BOOLEAN :
       \E blockIndex \in 0..Len(db[l].content) :
         UpdateContentBlock(l, u, blockIndex, block, tracked)
  \/ \E storeOk \in BOOLEAN : BlockEditSaved(storeOk)

SpecEdit == Init /\ [][NextEdit]_vars

\* The generateCourse requests, one after the other
NextCourse ==
  \/ \E topic \in Topics : GenerateCourseStart(topic)
  \/ \E response \in CourseResponses : GenerateCourseOutline(response)
  \/ \E storeOk \in BOOLEAN : GenerateCourseSaved(storeOk)
  \/ \E storeOk \in BOOLEAN : GenerateCourseModuleSaved(storeOk)
  \/ \E storeOk \in BOOLEAN : GenerateCourseLessonSaved(storeOk)
  \/ \E storeOk \in BOOLEAN : GenerateCourseLessonAdded(storeOk)
  \/ \E storeOk \in BOOLEAN : GenerateCourseModuleAdded(storeOk)
  \/ \E storeOk \in BOOLEAN : GenerateCoursePopulated(storeOk)
  \/ GenerateCourseEnd

SpecCourse == Init /\ [][NextCourse]_vars

\* deleteCourse requests, one at a time, beside the generateCourse requests
NextDelete ==
  \/ NextCourse
  \/ \E c \in 1..(Len(courses) + 1), u \in Users : DeleteCourseFind(c, u)
  \/ \E storeOk \in BOOLEAN : DeleteCourseModulesFound(storeOk)
  \/ \E storeOk \in BOOLEAN : DeleteCourseLessonsDeleted(storeOk)
  \/ \E storeOk \in BOOLEAN : DeleteCourseModuleHook(storeOk)
  \/ \E storeOk \in BOOLEAN : DeleteCourseModuleRemoved(storeOk)
  \/ \E storeOk \in BOOLEAN : DeleteCourseHook(storeOk)
  \/ \E storeOk \in BOOLEAN : DeleteCourseRemoved(storeOk)
  \/ DeleteCourseEnd

SpecDelete == Init /\ [][NextDelete]_vars

\* The suggestion and translation requests
NextAux ==
  \/ \E partialTopic \in PartialTopics : GetCourseSuggestionsStart(partialTopic)
  \/ \E response \in SuggestionResponses : GetCourseSuggestionsSettled(response)
  \/ GetCourseSuggestionsEnd
  \/ \E text \in TranslateTexts : TranslateStart(text)
  \/ \E response \in TranslationResponses : TranslateSettled(response)
  \/ TranslateEnd

SpecAux == Init /\ [][NextAux]_vars

\* Single calls of the service's functions
NextUnit ==
  \/ \E response \in LessonResponses : CallExtractText(response)
  \/ \E response \in TranslationResponses : CallExtractText(response)
  \/ \E courseData \in ParsedOutlines : CallValidateCourseStructure(courseData)
  \/ \E lessons \in ModuleLessons, lessonIds \in IdLists(MaxIdList), storeOk \in BOOLEAN :
       CallReorderLessons(lessons, lessonIds, storeOk)

SpecUnit == Init /\ [][NextUnit]_vars

\* The calls of retryWithBackoff, one after the other
NextRetry ==
  \/ \E maxRetries \in RetryCounts, baseDelay \in BaseDelays :
       RetryStart(maxRetries, baseDelay)
  \/ \E outcome \in Outcomes : RetrySettled(outcome)
  \/ RetryTimer

\* Every call of fn settles and every timer fires
SpecRetry ==
  /\ Init
  /\ [][NextRetry]_vars
  /\ WF_vars(\E outcome \in Outcomes : RetrySettled(outcome))
  /\ WF_vars(RetryTimer)

TypeOK ==
  /\ \A l \in Lessons : db[l].v <= 2 + MaxEdits /\ Len(db[l].content) <= 2 + MaxEdits
  /\ edits \in 0..MaxEdits
  /\ \A r \in Readers : req[r].pc \in {"idle", "generating", "saving", "done"}

(* ------------------------------ claims --------------------------------- *)
\* Content that came from the model (user edits carry other texts)
IsGenerated(c) ==
  /\ c # << >>
  /\ \A i \in 1..Len(c) : c[i].text \in {"genA", "genB", ""}

\* The generation calls in flight for lesson l
InFlight(l) == {r \in Readers : req[r].pc = "generating" /\ req[r].lesson = l}

\* Request r went through a generation that returned lesson data
Generated(r) == req[r].pc = "done" /\ req[r].outcome \in {"ok", "save"}

\* Request r is answered after its enrichment attempt failed
Failed(r) == req[r].pc = "done" /\ req[r].outcome \in {"generation", "save"}

\* Request r's step reads lesson l as its owner
Reads(r, l) ==
  /\ req[r].pc = "idle" /\ req'[r].pc # "idle"
  /\ req'[r].lesson = l /\ db[l].exists
  /\ req'[r].status # 403

\* Request r's step is the save that commits its enrichment
Commits(r) == req[r].pc = "saving" /\ req'[r].pc = "done" /\ req'[r].outcome = "ok"

\* C1: for every lesson at most one generation call is in flight at any time.
C1_SingleFlight == \A l \in Lessons : Cardinality(InFlight(l)) <= 1

\* C2: requests that read the same placeholder lesson at once and whose
\* generation succeeded all receive the same content, which is the content
\* persisted for the lesson when it is enriched.
C2_SameContent ==
  \A r1 \in Readers, r2 \in Readers :
    (/\ Generated(r1) /\ Generated(r2)
     /\ req[r1].lesson = req[r2].lesson
     /\ commits[req[r1].lesson] >= 1)
      => /\ req[r1].local.content = req[r2].local.content
         /\ IsGenerated(db[req[r1].lesson].content)
              => req[r1].local.content = db[req[r1].lesson].content

\* C3: at most one enrichment commit succeeds per lesson.
C3_AtMostOneCommit == \A l \in Lessons : commits[l] <= 1

\* Two requests read the placeholder at once, both generated, one committed
\* and the other's save was refused.
C3_Witness ==
  \E r1 \in Readers, r2 \in Readers :
    /\ req[r1].pc = "done" /\ req[r1].outcome = "ok"
    /\ req[r2].pc = "done" /\ req[r2].outcome = "save"
    /\ req[r1].lesson = req[r2].lesson
    /\ req[r2].local.v < db[req[r2].lesson].v
    /\ req[r2].local.estimatedMinutes <= 240
    /\ commits[req[r1].lesson] = 1

\* C4: a read of an enriched lesson starts no generation call and leaves the
\* lesson as it is, and it returns the persisted document, so that it
\* returns the content an earlier such read returned when nothing was
\* written in between.
C4_EnrichedReadIsPure ==
  [][\A r \in Readers, l \in Lessons :
       (Reads(r, l) /\ db[l].isEnriched)
         => /\ req'[r].pc = "done"
            /\ req'[r].local = db[l]
            /\ db' = db
            /\ \A r2 \in Readers :
                 (/\ req[r2].pc = "done" /\ req[r2].outcome = "enriched"
                  /\ req[r2].lesson = l /\ req[r2].local = db[l])
                   => Response(r2).data.content = req'[r].local.content]_vars

\* Two reads of the same enriched lesson are answered with the same content.
C4_Witness ==
  \E r1 \in Readers, r2 \in Readers :
    /\ r1 # r2
    /\ req[r1].pc = "done" /\ req[r1].outcome = "enriched"
    /\ req[r2].pc = "done" /\ req[r2].outcome = "enriched"
    /\ req[r1].lesson = req[r2].lesson
    /\ req[r1].local.content = req[r2].local.content
    /\ db[req[r1].lesson].content = req[r1].local.content

\* C5: a failed enrichment attempt (generateLesson threw, or the save was
\* refused) leaves the persisted lesson unchanged; a lesson that was the
\* placeholder is still the placeholder with isEnriched false.
C5_FailureKeepsLesson ==
  [][\A r \in Readers :
       (req[r].pc \in {"generating", "saving"} /\ Failed(r)')
         => /\ db' = db
            /\ db[req[r].lesson] = NewPlaceholder
                 => db'[req[r].lesson] = NewPlaceholder]_vars

\* A request whose save was refused is answered while the lesson is still
\* the placeholder.
C5_Witness ==
  \E r \in Readers :
    /\ req[r].pc = "done" /\ req[r].outcome = "save"
    /\ req[r].local.isEnriched
    /\ db[req[r].lesson] = NewPlaceholder

\* C6: when the enrichment attempt failed the caller receives the
\* placeholder content with isEnriched false and an error that tells the
\* response from a successful read.
C6_FailureSurfaced ==
  \A r \in Readers :
    Failed(r)
      => /\ Response(r).data.content = PlaceholderContent
         /\ ~Response(r).data.isEnriched
         /\ (Response(r).error \/ ~Response(r).success)

\* C7: whatever failed before, the owner's read of a lesson that is not
\* enriched starts a generation attempt, and the attempt whose save is
\* accepted leaves the lesson enriched with the generated content.
C7_Retryable ==
  [][\A r \in Readers :
       /\ \A l \in Lessons :
            (Reads(r, l) /\ ~db[l].isEnriched) => req'[r].pc = "generating"
       /\ Commits(r)
            => /\ db'[req[r].lesson].isEnriched
               /\ db'[req[r].lesson].content = req[r].local.content]_vars

\* A lesson enriched after MaxFailures failed attempts.
C7_Witness ==
  \E l \in Lessons :
    /\ failures[l] = MaxFailures
    /\ commits[l] = 1
    /\ db[l].isEnriched

\* C8: the commit writes content, objectives, estimatedMinutes and
\* isEnriched = true in one save and the request returns the committed
\* content; isEnriched becomes true only by such a commit, and no lesson
\* with isEnriched false holds generated content.
C8_CommitTogether ==
  [][/\ \A r \in Readers :
          Commits(r)
            => /\ db'[req[r].lesson].content = req[r].local.content
               /\ db'[req[r].lesson].objectives = req[r].local.objectives
               /\ db'[req[r].lesson].estimatedMinutes = req[r].local.estimatedMinutes
               /\ db'[req[r].lesson].isEnriched
               /\ IsGenerated(db'[req[r].lesson].content)
               /\ Response(r)'.data.content = db'[req[r].lesson].content
     /\ \A l \in Lessons :
          /\ (~db[l].isEnriched /\ db'[l].isEnriched)
               => /\ \E r \in Readers : Commits(r) /\ req[r].lesson = l
                  /\ db'[l].content # PlaceholderContent
          /\ ~db'[l].isEnriched
               => \A i \in 1..Len(db'[l].content) :
                    db'[l].content[i].text \notin {"genA", "genB"}]_vars

\* A request is answered with the content, objectives and minutes it
\* committed.
C8_Witness ==
  \E r \in Readers :
    /\ req[r].pc = "done" /\ req[r].outcome = "ok"
    /\ db[req[r].lesson].isEnriched
    /\ db[req[r].lesson].content = Response(r).data.content
    /\ db[req[r].lesson].content = GenA
    /\ db[req[r].lesson].objectives = << "objA" >>
    /\ db[req[r].lesson].estimatedMinutes = 30

\* C9: a generated lesson with a block of unknown kind is rejected whole:
\* generateLesson throws, nothing of the response reaches the request's
\* document, and the persisted lesson is left as it was.
C9_UnknownKindRejected ==
  [][\A r \in Readers :
       (req'[r].badKind /\ req[r].pc = "generating")
         => /\ Failed(r)' /\ req'[r].outcome = "generation"
            /\ req'[r].local = req[r].local
            /\ db' = db]_vars

\* The request that received the unknown kind is answered with the
\* placeholder, which is still what is persisted.
C9_Witness ==
  \E r \in Readers :
    /\ req[r].badKind
    /\ req[r].pc = "done"
    /\ req[r].local = NewPlaceholder
    /\ db[req[r].lesson] = NewPlaceholder

\* C10: every content block of every persisted lesson has one of the seven
\* recognized kinds.
C10_KnownKindsOnly ==
  \A l \in Lessons :
    \A i \in 1..Len(db[l].content) : db[l].content[i].type \in ValidTypes

\* The required text of a heading or paragraph block is present (the other
\* kinds' fields are not followed)
HasRequiredFields(b) == b.type \in {"heading", "paragraph"} => b.text # ""

\* C11: a generated lesson body is accepted by generateLesson, and committed,
\* only if every content block carries the required fields of its kind.
C11_RequiredFields ==
  [][\A r \in Readers :
       /\ (req[r].pc = "generating" /\ req'[r].pc = "saving")
            => \A i \in 1..Len(req'[r].local.content) :
                 HasRequiredFields(req'[r].local.content[i])
       /\ Commits(r)
            => \A i \in 1..Len(db'[req[r].lesson].content) :
                 HasRequiredFields(db'[req[r].lesson].content[i])]_vars

\* The documents of a collection that request n created
ByRequest(collection, n) == {k \in 1..Len(collection) : collection[k].by = n}

\* The generateCourse request in progress
ThisRequest == requests + 1

\* Nothing that the request in progress created is persisted
NothingCreated(cs, ms, ss) ==
  /\ ByRequest(cs, ThisRequest) = {}
  /\ ByRequest(ms, ThisRequest) = {}
  /\ ByRequest(ss, ThisRequest) = {}

RECURSIVE SumLessons(_)
SumLessons(moduleList) ==
  IF moduleList = << >> THEN 0
  ELSE Len(Head(moduleList).lessons) + SumLessons(Tail(moduleList))

\* C12: a generateCourse request in which no step failed (it answers 201)
\* has persisted exactly one course, exactly M modules attached to it and
\* exactly the sum of L_i lessons, each attached to its module with
\* isEnriched false and the single placeholder paragraph as content.
C12_HierarchyCounts ==
  (gc.pc = "done" /\ gc.status = 201)
    => LET o == gc.outline
           c == gc.course IN
         /\ ByRequest(courses, ThisRequest) = {c}
         /\ Len(courses[c].modules) = Len(o.modules)
         /\ Cardinality(ByRequest(modules, ThisRequest)) = Len(o.modules)
         /\ Cardinality(ByRequest(stubs, ThisRequest)) = SumLessons(o.modules)
         /\ \A i \in 1..Len(o.modules) :
              LET m == courses[c].modules[i] IN
                /\ m \in ByRequest(modules, ThisRequest)
                /\ modules[m].course = c
                /\ \A k \in 1..Len(o.modules) : courses[c].modules[k] = m => k = i
                /\ Len(modules[m].lessons) = Len(o.modules[i].lessons)
                /\ \A j \in 1..Len(modules[m].lessons) :
                     LET s == modules[m].lessons[j] IN
                       /\ s \in ByRequest(stubs, ThisRequest)
                       /\ stubs[s].module = m
                       /\ ~stubs[s].isEnriched
                       /\ stubs[s].content = PlaceholderContent
                       /\ \A k \in 1..Len(modules[m].lessons) :
                            modules[m].lessons[k] = s => k = j

\* A second request answers 201 for the outline of two modules and three
\* lessons.
C12_Witness ==
  /\ gc.pc = "done" /\ gc.status = 201
  /\ requests = 1
  /\ gc.outline = OutlineTwo
  /\ Cardinality(ByRequest(modules, ThisRequest)) = 2
  /\ Cardinality(ByRequest(stubs, ThisRequest)) = 3

\* C13: when a save of the course, a module or a lesson, or an addLesson or
\* addModule step, fails during generateCourse, no course, module or lesson
\* created by the request remains persisted.
C13_AllOrNone ==
  [][(/\ gc.pc \in {"courseSave", "moduleSave", "lessonSave", "addLesson", "addModule"}
      /\ gc'.pc = "done" /\ gc'.status = 500)
       => NothingCreated(courses', modules', stubs')]_vars

\* C14: when outline generation fails (model call error, extraction error,
\* unparseable JSON or outline validation error) generateCourse creates no
\* course, no module and no lesson.
C14_OutlineFailureCreatesNothing ==
  /\ gc.badOutline => gc.pc = "done"
  /\ gc.badOutline => NothingCreated(courses, modules, stubs)

\* The second request fails at the outline and leaves only the first
\* request's course.
C14_Witness ==
  /\ gc.badOutline /\ gc.pc = "done"
  /\ requests = 1
  /\ courses # << >>
  /\ NothingCreated(courses, modules, stubs)

\* C15: a request whose topic is missing, empty or only whitespace is
\* answered with an error at once: no model call is made and no course,
\* module or lesson is created.
C15_BlankTopicRejected ==
  (gc.pc # "idle" /\ gc.topic \in {"missing", "empty", "blank"})
    => /\ gc.pc = "done" /\ gc.status = 400
       /\ gc.calls = 0
       /\ NothingCreated(courses, modules, stubs)

\* A request with a whitespace topic is answered 400.
C15_Witness ==
  /\ gc.pc = "done" /\ gc.status = 400
  /\ gc.topic = "blank"
  /\ gc.calls = 0

\* The order the outline asks for: the supplied one, else the position
ExpectedOrder(element, position) ==
  IF element.hasOrder THEN element.order ELSE position

\* C16: the persisted order of every module and lesson stub equals the
\* order supplied in the outline whenever one is supplied (0 included), and
\* the element's 0-based position when the outline omits it.
C16_OrderHonoured ==
  [][/\ (gc.pc = "moduleSave" /\ Len(modules') > Len(modules))
          => modules'[Len(modules')].order =
               ExpectedOrder(gc.outline.modules[gc.i + 1], gc.i)
     /\ (gc.pc = "lessonSave" /\ Len(stubs') > Len(stubs))
          => stubs'[Len(stubs')].order =
               ExpectedOrder(gc.outline.modules[gc.i + 1].lessons[gc.j + 1], gc.j)]_vars

\* C17: the persisted readingTime of every lesson equals
\* max(1, ceil(wordCount / 200)) computed from its persisted content, after
\* whichever handler wrote the content last.
C17_ReadingTimeDerived ==
  \A l \in Lessons :
    db[l].exists => db[l].readingTime = ReadingTime(db[l].content)

\* C18: topic suggestion never fails the caller: whatever the model call
\* gives, generateCourseSuggestions returns instead of raising and the
\* request is answered as a success, with the empty list whenever the call,
\* the extraction or the parse failed.
C18_SuggestionsNeverFail ==
  (sg.pc = "done" /\ sg.status # 400)
    => /\ ~sg.raised
       /\ sg.status = 200
       /\ sg.failed => sg.data = EmptyList

\* A request whose model call gave nothing usable is answered with [].
C18_Witness ==
  /\ sg.pc = "done" /\ sg.status = 200
  /\ sg.failed
  /\ sg.data = EmptyList

\* A list of at most five non-empty strings
WellFormedSuggestions(data) ==
  /\ data.kind = "array"
  /\ Len(data.items) <= 5
  /\ \A k \in 1..Len(data.items) :
       data.items[k].isString /\ data.items[k].text # ""

\* C19: the value returned by generateCourseSuggestions is the empty list or
\* a list of 1 to 5 non-empty strings.
C19_SuggestionsWellFormed ==
  (sg.pc = "done" /\ sg.status = 200) => WellFormedSuggestions(sg.data)

\* C20: translateToHinglish returns a non-empty trimmed string or fails with
\* an error; it never returns an empty string, and text that is not JSON is
\* returned like any other text.
C20_TranslationNonEmpty ==
  tr.pc = "done"
    => \/ tr.status = 500
       \/ /\ tr.status = 200
          /\ tr.value # << >>
          /\ tr.value = Trim(tr.value)

\* C21: extractText returns a text string or fails with an error; it never
\* returns a value that is not a string.
C21_ExtractedIsString ==
  (unit.fn = "extractText" /\ unit.output.ok) => unit.output.isString

\* The outline the claim accepts: title and description, a non-empty array
\* of modules, each with a title and at least one lesson
AcceptableOutline(o) ==
  /\ o.title # "" /\ o.description # ""
  /\ o.modulesKind = "array" /\ o.modules # << >>
  /\ \A k \in 1..Len(o.modules) :
       o.modules[k].title # "" /\ o.modules[k].lessons # << >>

LiveModules(c, ms, gone) ==
  {m \in 1..Len(ms) : ms[m].course = c} \ gone.modules
LiveLessons(c, ms, ss, gone) ==
  {s \in 1..Len(ss) : ms[ss[s].module].course = c} \ gone.stubs

\* C23: when a deleteCourse request of the owner completes with success, no
\* module of the deleted course and no lesson of such a module remains
\* persisted, and no step of the request touches the modules and lessons of
\* another course.
C23_DeleteCascades ==
  [][/\ (dc.pc = "removeCourse" /\ dc'.pc = "done" /\ dc'.status = 200)
          => /\ LiveModules(dc.course, modules', removed') = {}
             /\ LiveLessons(dc.course, modules', stubs', removed') = {}
     /\ (dc.pc \notin {"idle", "done"} /\ dc' # dc)
          => \A c \in 1..Len(courses) :
               c # dc.course
                 => /\ LiveModules(c, modules', removed') = LiveModules(c, modules, removed)
                    /\ LiveLessons(c, modules', stubs', removed')
                         = LiveLessons(c, modules, stubs, removed)]_vars

\* C24: a getLesson request that is waiting for the model call is eventually
\* answered, whether or not the model call ever settles (the wait for the
\* external call is bounded).
C24_BoundedWait ==
  \A r \in Readers : (req[r].pc = "generating") ~> (req[r].pc = "done")

\* C25: once the persisted isEnriched of a lesson is true, no step of
\* getLesson, updateLesson, addContentBlock, updateContentBlock or
\* deleteContentBlock sets it back to false.
C25_EnrichedTerminal ==
  [][\A l \in EditLessons : db[l].isEnriched => db'[l].isEnriched]_vars

\* An enriched lesson whose content was edited afterwards: it holds a block
\* the user wrote and is still enriched.
C25_Witness ==
  \E l \in EditLessons :
    /\ db[l].isEnriched
    /\ \E i \in 1..Len(db[l].content) : db[l].content[i].text = "user"

\* C26: every persisted lesson has at least one content block; the save of
\* deleteContentBlock on the only block, and updateLesson with an empty
\* content array, are rejected and leave the stored lesson as it was.
C26_AtLeastOneBlock ==
  [][/\ \A l \in EditLessons : db'[l].exists => Len(db'[l].content) >= 1
     /\ (ed.pc = "saving" /\ ed.content = << >> /\ ed'.pc = "idle") => db' = db
     /\ \A l \in EditLessons, u \in Users :
          UpdateLesson(l, u, TRUE, << >>, 0) => db' = db]_vars

\* deleteContentBlock holds a lesson whose only block it has removed and has
\* issued the save, while the stored lesson has its one block.
C26_Witness ==
  /\ ed.pc = "saving" /\ ed.mode = "set" /\ ed.content = << >>
  /\ ed.block = NullBlock
  /\ Len(db[ed.lesson].content) = 1

\* Whether content after is content before with block b put in at 0-based
\* index p, the blocks of before keeping their order
PutAt(before, after, p, b) ==
  /\ Len(after) = Len(before) + 1
  /\ after[p + 1] = b
  /\ \A i \in 1..Len(before) :
       before[i] = IF i <= p THEN after[i] ELSE after[i + 1]

\* C27: addContentBlock with a block of a recognized type builds, from the
\* lesson it loaded, a content one block longer: the block is at the end when
\* position is -1 or at least the length, at index position otherwise, and the
\* other blocks keep their order. Its save, when applied to the stored
\* content the handler loaded, persists that content; an append is applied
\* at the end of whatever content is stored.
C27_AddContentBlock ==
  [][/\ \A l \in EditLessons, u \in Users, block \in EditBlocks :
          \A position \in -1..Len(db[l].content) :
            (AddContentBlock(l, u, block, position) /\ ed'.pc = "saving")
              => /\ block.type \in ValidTypes
                 /\ PutAt(db[l].content, ed'.content,
                          IF position = -1 \/ position >= Len(db[l].content)
                            THEN Len(db[l].content) ELSE position,
                          AsBlock(block))
     /\ (ed.pc = "saving" /\ ed'.pc = "idle" /\ ed.block # NullBlock /\ db' # db)
          => /\ ed.mode = "push"
                  => PutAt(db[ed.lesson].content, db'[ed.lesson].content,
                           Len(db[ed.lesson].content), ed.block)
             /\ (/\ ed.mode = "set"
                 /\ ed.index <= Len(db[ed.lesson].content)
                 /\ ed.content = InsertAt(db[ed.lesson].content, ed.index, ed.block))
                  => PutAt(db[ed.lesson].content, db'[ed.lesson].content,
                           ed.index, ed.block)]_vars

\* A block was inserted at the head of a lesson and the lesson's earlier
\* blocks follow it.
C27_Witness ==
  \E l \in EditLessons :
    /\ Len(db[l].content) >= 2
    /\ db[l].content[1] = Block("paragraph", "user")
    /\ db[l].content[2] # Block("paragraph", "user")
    /\ ed.pc = "idle"

\* The calls of fn that failed, in a retryWithBackoff call
AllFailed(outcomes) == \A k \in 1..Len(outcomes) : ~outcomes[k].ok

\* What a retryWithBackoff call has done so far agrees with its contract
RetryContract ==
  unit.fn = "retryWithBackoff" =>
    LET rt == unit.output
        maxRetries == unit.input.maxRetries
        calls == Len(rt.outcomes) IN
      /\ calls <= maxRetries + 1
      /\ rt.pc = "returned"
           => /\ rt.outcomes[calls].ok
              /\ rt.result = rt.outcomes[calls].value
              /\ AllFailed(SubSeq(rt.outcomes, 1, calls - 1))
              /\ Len(rt.delays) = calls - 1
      /\ rt.pc = "thrown"
           => /\ calls = maxRetries + 1
              /\ AllFailed(rt.outcomes)
              /\ rt.result = rt.outcomes[maxRetries + 1].value
              /\ Len(rt.delays) = maxRetries
      /\ rt.pc \in {"calling", "waiting"} => AllFailed(rt.outcomes)
      /\ \A k \in 1..Len(rt.delays) :
           /\ rt.delays[k] = unit.input.baseDelay * (2 ^ (k - 1))
           /\ ~rt.outcomes[k].ok

\* C28: when every call of fn settles, retryWithBackoff(fn, maxRetries,
\* baseDelay) ends; it calls fn at most maxRetries + 1 times, returns the
\* value of the first call that succeeds and calls fn no more, throws the
\* error of the last call when all maxRetries + 1 calls fail, and waits
\* baseDelay * 2^i after the i-th failed call before it calls again.
C28_RetryWithBackoff ==
  /\ []RetryContract
  /\ Retrying ~> (unit.fn = "retryWithBackoff"
                    /\ unit.output.pc \in {"returned", "thrown"})

\* Three calls failed, with waits of baseDelay and twice baseDelay between
\* them, and the error of the third was thrown.
C28_Witness ==
  /\ unit.fn = "retryWithBackoff"
  /\ unit.input = [maxRetries |-> 2, baseDelay |-> 250]
  /\ unit.output.pc = "thrown"
  /\ unit.output.delays = << 250, 500 >>
  /\ unit.output.outcomes =
       << Outcome(FALSE, "e1"), Outcome(FALSE, "e2"), Outcome(FALSE, "e1") >>
  /\ unit.output.result = "e1"

\* Whether after holds exactly the identifiers of before, each once
IsPermutation(before, after) ==
  /\ Len(after) = Len(before)
  /\ \A i \in 1..Len(before) :
       Cardinality({j \in 1..Len(after) : after[j] = before[i]}) = 1

\* C30: reorderLessons either throws and leaves the module's lessons as they
\* were, or leaves a list that is a permutation of the previous one.
C30_ReorderIsPermutation ==
  unit.fn = "reorderLessons"
    => IF unit.output.thrown
         THEN unit.output.lessons = unit.input.lessons
         ELSE IsPermutation(unit.input.lessons, unit.output.lessons)

\* C29: an enrichment commit never overwrites a user's edit: when the
\* content stored for a lesson is no longer the content a getLesson request
\* loaded (an edit was persisted since), the save of that request leaves
\* the stored content as it is.
C29_CommitKeepsUserEdit ==
  [][\A r \in Readers :
       (/\ req[r].pc = "saving" /\ req'[r].pc = "done"
        /\ db[req[r].lesson].content # req[r].seen
        /\ ~db[req[r].lesson].isEnriched)
         => db'[req[r].lesson].content = db[req[r].lesson].content]_vars

====
